---- MODULE Spec2Model ----
(***************************************************************************)
(* Verification model of the shred particle motion controller              *)
(* (js/model/Particle.js) and of the keyboard placement protocol of the    *)
(* electron shell view (js/view/ElectronShellView.js).                     *)
(*                                                                         *)
(* Geometry.  Vector2 values are pairs <<x, y>> of integers.  Every point  *)
(* the model uses lies on the line through the origin with bearing (3, 4), *)
(* and every step magnitude is a multiple of 5, so that the distance, the  *)
(* polar decomposition of a step and the 1.05 placement scale are all      *)
(* exact in integer arithmetic.  dt is counted in whole seconds.           *)
(***************************************************************************)
EXTENDS Integers, Sequences, FiniteSets, TLC

\* ------------------------------------------------------------------ bounds
MaxDt == 2          \* step(dt) is called with dt in 0..MaxDt
OuterSlots == 1     \* number of electron positions on the outer ring
MaxPending == 1     \* cap on setTimeout callbacks waiting at once
MaxSteps == 6       \* cap on the step counter of the motion-only specification
WideSlots == 3      \* electron positions on the outer ring of the one-electron specification
MaxListeners == 2   \* cap on the listeners the earlier view's emitters hold
Reach == 4          \* the motion-only specification draws points up to 50 Reach away

\* --------------------------------------------------------------- constants
DEFAULT_PARTICLE_VELOCITY == 200
InnerSlots == 2

Particles == {"p1", "p2"}
BucketFronts == {"b1"}
Null == "null"

\* ------------------------------------------------------------- Vector2
ZERO == <<0, 0>>

plus(a, b) == <<a[1] + b[1], a[2] + b[2]>>

timesHundredths(v, h) == <<(v[1] * h) \div 100, (v[2] * h) \div 100>>

RECURSIVE sqrtBetween(_, _, _)
sqrtBetween(n, lo, hi) ==
  CHOOSE root \in
    { IF l >= h THEN l
      ELSE IF mid * mid <= m THEN sqrtBetween(m, mid, h)
      ELSE sqrtBetween(m, l, mid - 1) :
        m \in {n}, l \in {lo}, h \in {hi}, mid \in {(lo + hi + 1) \div 2} } : TRUE

sqrt(n) == sqrtBetween(n, 0, 4096)

distance(a, b) ==
  sqrt((a[1] - b[1]) * (a[1] - b[1]) + (a[2] - b[2]) * (a[2] - b[2]))

\* Math.atan2( y, x ): the bearing, kept as the direction <<x, y>> it was taken from
atan2(y, x) == <<x, y>>

\* Vector2.createPolar( magnitude, angle ) = ( magnitude cos angle, magnitude sin angle )
createPolar(magnitude, angle) ==
  LET r == distance(angle, ZERO)
  IN  <<(magnitude * angle[1]) \div r, (magnitude * angle[2]) \div r>>

\* k-th point of the model's line, 5 k away from the origin
OnLine(k) == <<3 * k, 4 * k>>


\* ------------------------------------------------------------ geometry
\* atom.electronShellPositions[ i ].position: two positions on the inner shell
\* (radius 100), the rest on the outer shell, alternating sides of the nucleus
electronShellPosition(i) ==
  OnLine(20 * (IF i % 2 = 0 THEN 1 ELSE -1) * (1 + i \div 2))

\* the rings are named by their index in shellNucluesOptions: 1 inner, 2 outer
Rings == {1, 2}

\* atom.electronShellPositions.slice( 0, 2 ) and .slice( 2 )
constructedSlots(r) == IF r = 1 THEN InnerSlots ELSE OuterSlots
ringShellPosition(r, i) ==
  IF r = 1 THEN electronShellPosition(i) ELSE electronShellPosition(InnerSlots + i)

\* shellNucleusHoverLocations of centerOption (nucleus radius 0), innerRing, outerRing
shellNucleusHoverLocations(i) ==
  IF i = 0 THEN ZERO ELSE IF i = 1 THEN OnLine(22) ELSE OnLine(44)

\* where a bucket keeps a returned particle
bucketLocation(b) == OnLine(-50)

\* placement scale of line 315 and 378, in hundredths
PlacementScale == 105

\* ---------------------------------------------------------------- keys
KEY_DOWN_ARROW == "ArrowDown"
KEY_RIGHT_ARROW == "ArrowRight"
KEY_UP_ARROW == "ArrowUp"
KEY_LEFT_ARROW == "ArrowLeft"
KEY_ENTER == "Enter"
KEY_SPACE == "Space"
KEY_TAB == "Tab"
KEY_ESCAPE == "Escape"
Keys == {KEY_DOWN_ARROW, KEY_RIGHT_ARROW, KEY_UP_ARROW, KEY_LEFT_ARROW,
         KEY_ENTER, KEY_SPACE, KEY_TAB, KEY_ESCAPE}

\* ------------------------------------------------------------- state
VARIABLES
  position,                     \* Particle.positionProperty
  destination,                  \* Particle.destinationProperty
  velocity,                     \* Particle.velocityProperty
  userControlled,               \* Particle.userControlledProperty
  isAccessibleControlled,       \* particle.isAccessibleControlled
  assertEnabled,                \* whether the build defines window.assert
  selectingShellNucleusOptions, \* ElectronShellView
  previouslyFocusedNode,        \* index of the node in shellNucluesOptions
  currentOptionIndex,
  currentlyDraggedParticle,
  currentlySelectedBucketFront,
  choosingElectronPlacement,    \* ElectronRingNode, one value per ring
  activeParticle,
  activeBucketFront,
  ringOptionIndex,              \* ElectronRingNode.currentOptionIndex
  previouslyFocusedElectron,    \* index of the node in electronPlacementNodes
  dashFocusable,                \* electronPlacementNodes[ i ].focusable
  dashAccessibleHidden,
  dashVisible,
  focus,                        \* the node holding input focus
  timers,                       \* setTimeout callbacks not yet run, oldest first
  currentIndex,                 \* the earlier ElectronShellView (Particle.js 266)
  dragListeners,                \* particles its emitters hold listeners for
  committed,                    \* history: where a slot-level activate left a particle
  run,                          \* history of the motion-only specification
  last                          \* history: the operation that produced this state

vars == <<position, destination, velocity, userControlled, isAccessibleControlled,
          assertEnabled, selectingShellNucleusOptions, previouslyFocusedNode,
          currentOptionIndex, currentlyDraggedParticle, currentlySelectedBucketFront,
          choosingElectronPlacement, activeParticle, activeBucketFront, ringOptionIndex,
          previouslyFocusedElectron, dashFocusable, dashAccessibleHidden, dashVisible,
          focus, timers, currentIndex, dragListeners, committed, run, last>>

particleVars == <<position, destination, velocity, userControlled, isAccessibleControlled>>
viewVars == <<selectingShellNucleusOptions, previouslyFocusedNode, currentOptionIndex,
              currentlyDraggedParticle, currentlySelectedBucketFront,
              choosingElectronPlacement, activeParticle, activeBucketFront,
              ringOptionIndex, previouslyFocusedElectron, dashFocusable,
              dashAccessibleHidden, dashVisible, focus, timers, currentIndex,
              dragListeners>>

\* focus values
NoFocus == [kind |-> "none", a |-> 0, b |-> 0]
OptionFocus(i) == [kind |-> "option", a |-> i, b |-> 0]
DashFocus(r, i) == [kind |-> "dash", a |-> r, b |-> i]
BucketFocus(b) == [kind |-> "bucketFront", a |-> IF b = "b1" THEN 1 ELSE 2, b |-> 0]

NoPoint == <<-1, -1>>
NoRun == [d0 |-> 0, dt |-> 0, n |-> 0]

\* the record kept in last
Op(name) ==
  [op |-> name, p |-> Null, dt |-> 0, arg |-> ZERO, isVector |-> TRUE, placed |-> FALSE,
   event |-> "", outcome |-> "ok", ended |-> {}, reabsorbed |-> <<>>]


\* ------------------------------------------------------ Particle.js
\* stepPosition without the branch of lines 98-101: it steps whenever it is not there
stepPosition_alwaysSteps(pos, dest, vel, dt) ==
  IF distance(pos, dest) > 0
  THEN plus(pos, createPolar(vel * dt, atan2(dest[2] - pos[2], dest[1] - pos[1])))
  ELSE pos

\* stepPosition without the branch of lines 98-101: close to the destination it stays put
stepPosition_neverSnaps(pos, dest, vel, dt) ==
  IF distance(pos, dest) > dt * vel
  THEN plus(pos, createPolar(vel * dt, atan2(dest[2] - pos[2], dest[1] - pos[1])))
  ELSE pos

\* the position Particle.step( dt ) computes for a particle that is not user controlled
stepPosition(pos, dest, vel, dt) ==
  LET distanceToDestination == distance(pos, dest)
  IN  IF distanceToDestination > dt * vel
      THEN LET stepMagnitude == vel * dt
               stepAngle == atan2(dest[2] - pos[2], dest[1] - pos[1])
               stepVector == createPolar(stepMagnitude, stepAngle)
           IN  plus(pos, stepVector)
      ELSE IF distanceToDestination > 0
           THEN dest          \* moveImmediatelyToDestination
           ELSE pos

\* step without the test of line 83
step_ignoresUserControlled(p, dt) ==
  /\ position' = [position EXCEPT ![p] =
       stepPosition(position[p], destination[p], velocity[p], dt)]
  /\ UNCHANGED <<destination, velocity, userControlled, isAccessibleControlled>>

\* Particle.step( dt )
step(p, dt) ==
  /\ position' = [position EXCEPT ![p] =
       IF ~userControlled[p]
       THEN stepPosition(position[p], destination[p], velocity[p], dt)
       ELSE position[p]]
  /\ UNCHANGED <<destination, velocity, userControlled, isAccessibleControlled>>

\* Particle.moveImmediatelyToDestination()
moveImmediatelyToDestination(p) ==
  /\ position' = [position EXCEPT ![p] = destination[p]]
  /\ UNCHANGED <<destination, velocity, userControlled, isAccessibleControlled>>

\* Particle.setPositionAndDestination( newPosition ): newPosition is a Vector2
\* (isVector, with value arg) or some other value.  The result is "AssertionError"
\* when the assertion of line 115 throws, and "ok" otherwise.
setPositionAndDestinationOutcome(isVector) ==
  IF assertEnabled /\ ~isVector THEN "AssertionError" ELSE "ok"

\* setPositionAndDestination without line 118
setPositionAndDestination_staysPut(p, isVector, arg) ==
  /\ destination' = [destination EXCEPT ![p] = IF isVector THEN arg ELSE @]
  /\ UNCHANGED <<position, velocity, userControlled, isAccessibleControlled>>

\* setPositionAndDestination without the test of line 116
setPositionAndDestination_unguarded(p, isVector, arg) ==
  /\ destination' = [destination EXCEPT ![p] = arg]
  /\ position' = [position EXCEPT ![p] = arg]
  /\ UNCHANGED <<velocity, userControlled, isAccessibleControlled>>

setPositionAndDestination(p, isVector, arg) ==
  /\ destination' = [destination EXCEPT ![p] = IF isVector THEN arg ELSE @]
  /\ position' = [position EXCEPT ![p] = IF isVector THEN arg ELSE @]
  /\ UNCHANGED <<velocity, userControlled, isAccessibleControlled>>

\* ------------------------------------------------ ElectronShellView.js
\* The handlers are functions of a record s holding the fields they read and write,
\* so that the listeners one key event reaches run one after the other.
State ==
  [position |-> position, destination |-> destination,
   userControlled |-> userControlled, isAccessibleControlled |-> isAccessibleControlled,
   selectingShellNucleusOptions |-> selectingShellNucleusOptions,
   previouslyFocusedNode |-> previouslyFocusedNode,
   currentOptionIndex |-> currentOptionIndex,
   currentlyDraggedParticle |-> currentlyDraggedParticle,
   currentlySelectedBucketFront |-> currentlySelectedBucketFront,
   choosingElectronPlacement |-> choosingElectronPlacement,
   activeParticle |-> activeParticle, activeBucketFront |-> activeBucketFront,
   ringOptionIndex |-> ringOptionIndex,
   previouslyFocusedElectron |-> previouslyFocusedElectron,
   dashFocusable |-> dashFocusable, dashAccessibleHidden |-> dashAccessibleHidden,
   dashVisible |-> dashVisible, focus |-> focus, timers |-> timers,
   currentIndex |-> currentIndex, dragListeners |-> dragListeners,
   outcome |-> "ok", ended |-> {}, reabsorbed |-> <<>>]

\* the record s becomes the next state
Becomes(s) ==
  /\ position' = s.position
  /\ destination' = s.destination
  /\ userControlled' = s.userControlled
  /\ isAccessibleControlled' = s.isAccessibleControlled
  /\ selectingShellNucleusOptions' = s.selectingShellNucleusOptions
  /\ previouslyFocusedNode' = s.previouslyFocusedNode
  /\ currentOptionIndex' = s.currentOptionIndex
  /\ currentlyDraggedParticle' = s.currentlyDraggedParticle
  /\ currentlySelectedBucketFront' = s.currentlySelectedBucketFront
  /\ choosingElectronPlacement' = s.choosingElectronPlacement
  /\ activeParticle' = s.activeParticle
  /\ activeBucketFront' = s.activeBucketFront
  /\ ringOptionIndex' = s.ringOptionIndex
  /\ previouslyFocusedElectron' = s.previouslyFocusedElectron
  /\ dashFocusable' = s.dashFocusable
  /\ dashAccessibleHidden' = s.dashAccessibleHidden
  /\ dashVisible' = s.dashVisible
  /\ focus' = s.focus
  /\ timers' = s.timers
  /\ currentIndex' = s.currentIndex
  /\ dragListeners' = s.dragListeners

\* electronPlacementNodes.length of ring r
slotCount(r) == Cardinality(DOMAIN dashFocusable[r])

isDownRight(key) == key = KEY_DOWN_ARROW \/ key = KEY_RIGHT_ARROW
isUpLeft(key) == key = KEY_UP_ARROW \/ key = KEY_LEFT_ARROW
isPlaceOrEnd(key) ==
  key = KEY_ENTER \/ key = KEY_SPACE \/ key = KEY_TAB \/ key = KEY_ESCAPE

\* isEnd taking every key for Tab or Escape
isEnd_everyKey(key) == TRUE

\* the test that guards addParticleFirstOpen in both listeners
isEnd(key) == key = KEY_TAB \/ key = KEY_ESCAPE

\* bucketFront.bucket.addParticleFirstOpen( particle, true ): the bucket takes the
\* particle back and sends it to its open position
addParticleFirstOpen(s, bucketFront, particle) ==
  [s EXCEPT !.destination[particle] = bucketLocation(bucketFront),
            !.reabsorbed = Append(@, <<bucketFront, particle>>)]

\* a setTimeout that forgets the callback
setTimeout_dropped(s, who) == s

\* setTimeout( callback, 100 ) of the view (who = 0) or of ring who
setTimeout(s, who) == [s EXCEPT !.timers = Append(@, who)]

\* chooseElectron sending the particle to the dash itself, without times( 1.05 )
chooseElectron_unscaled(s, r, particle, bucketFront) ==
  LET slots == 0 .. (slotCount(r) - 1)
      prev == s.previouslyFocusedElectron[r]
  IN  [s EXCEPT
        !.activeParticle[r] = particle,
        !.activeBucketFront[r] = bucketFront,
        !.choosingElectronPlacement[r] = TRUE,
        !.dashFocusable[r] = [i \in slots |-> TRUE],
        !.dashAccessibleHidden[r] = [i \in slots |-> FALSE],
        !.dashVisible[r] = [i \in slots |-> i # prev],
        !.destination[particle] = ringShellPosition(r, s.ringOptionIndex[r]),
        !.focus = DashFocus(r, prev)]

\* ElectronRingNode.chooseElectron( particle, bucketFront ) of ring r
chooseElectron(s, r, particle, bucketFront) ==
  LET slots == 0 .. (slotCount(r) - 1)
      prev == s.previouslyFocusedElectron[r]
  IN  [s EXCEPT
        !.activeParticle[r] = particle,
        !.activeBucketFront[r] = bucketFront,
        !.choosingElectronPlacement[r] = TRUE,
        !.dashFocusable[r] = [i \in slots |-> TRUE],
        !.dashAccessibleHidden[r] = [i \in slots |-> FALSE],
        !.dashVisible[r] = [i \in slots |-> i # prev],
        !.destination[particle] =
            timesHundredths(ringShellPosition(r, s.ringOptionIndex[r]), PlacementScale),
        !.focus = DashFocus(r, prev)]

\* the index one below i, without the test for a negative result
previousIndex_noWrap(i, n) == i - 1

\* the index one below i among n options: the decrement of lines 152-153 and of
\* lines 301-302, which goes from 0 to the last index
previousIndex(i, n) == IF i - 1 < 0 THEN n - 1 ELSE i - 1

\* the dashes as they are when the one left behind stays hidden
showPrevious_skipped(visible, prev) == visible

\* line 307: the dash that had input focus gets its mark back
showPrevious(visible, prev) == [visible EXCEPT ![prev] = TRUE]

\* the flags of a ring's dashes when the loop of lines 330-335 is left out
allOff_skipped(flags) == flags

\* lines 330-335: every dash of the ring loses the flag (focusable, visible)
allOff(flags) == [i \in DOMAIN flags |-> FALSE]

\* keydown listener of ElectronRingNode r (lines 288-358)
ringKeydown(s, r, key) ==
  IF ~(s.choosingElectronPlacement[r] /\ s.activeParticle[r] # Null
       /\ s.activeBucketFront[r] # Null)
  THEN s
  ELSE
    LET particle == s.activeParticle[r]
        bucketFront == s.activeBucketFront[r]
        n == slotCount(r)
    IN
    IF isDownRight(key) \/ isUpLeft(key) THEN
      LET index == IF isUpLeft(key) THEN (s.ringOptionIndex[r] + 1) % n
                   ELSE previousIndex(s.ringOptionIndex[r], n)
          shown == showPrevious(s.dashVisible[r], s.previouslyFocusedElectron[r])
      IN  [s EXCEPT
            !.ringOptionIndex[r] = index,
            !.dashVisible[r] = [shown EXCEPT ![index] = FALSE],
            !.focus = DashFocus(r, index),
            !.destination[particle] =
                timesHundredths(ringShellPosition(r, index), PlacementScale),
            !.previouslyFocusedElectron[r] = index]
    ELSE IF isPlaceOrEnd(key) THEN
      \* line 325 writes choosingElectronPlaement, a field nothing reads:
      \* choosingElectronPlacement stays true
      LET slots == 0 .. (n - 1)
          s1 == IF isEnd(key)
                THEN addParticleFirstOpen(s, bucketFront, particle) ELSE s
          s2 == [s1 EXCEPT
                  !.userControlled[particle] = FALSE,
                  !.dashFocusable[r] = allOff(@),
                  !.dashAccessibleHidden[r] = [i \in slots |-> TRUE],
                  !.dashVisible[r] = allOff(@),
                  \* a hidden element cannot keep input focus
                  !.focus = IF @.kind = "dash" /\ @.a = r THEN NoFocus ELSE @,
                  !.isAccessibleControlled[particle] = FALSE,
                  !.activeParticle[r] = Null,
                  !.ended = @ \cup {<<particle, "Slot">>}]
      IN  IF key # KEY_TAB THEN setTimeout(s2, r)
          ELSE [s2 EXCEPT !.activeBucketFront[r] = Null]
    ELSE s

\* isDragging without the test of line 171
isDragging_untested(s) == TRUE

\* the test of line 171: there is a particle being dragged, and its bucket front
isDragging(s) ==
  s.currentlyDraggedParticle # Null /\ s.currentlySelectedBucketFront # Null

\* keydown listener of ElectronShellView (lines 140-223)
viewKeydown(s, key) ==
  IF ~s.selectingShellNucleusOptions THEN s
  ELSE IF isDownRight(key) \/ isUpLeft(key) THEN
    LET index == IF isDownRight(key) THEN (s.currentOptionIndex + 1) % 3
                 ELSE previousIndex(s.currentOptionIndex, 3)
        s1 == [s EXCEPT !.currentOptionIndex = index, !.focus = OptionFocus(index)]
    IN  IF s.currentlyDraggedParticle = Null
        THEN [s1 EXCEPT !.outcome = "TypeError"]   \* line 160 reads a field of null
        ELSE [s1 EXCEPT
               !.destination[s.currentlyDraggedParticle] = shellNucleusHoverLocations(index),
               !.previouslyFocusedNode = index]
  ELSE IF isPlaceOrEnd(key) THEN
    IF isDragging(s) THEN
      LET particle == s.currentlyDraggedParticle
          bucketFront == s.currentlySelectedBucketFront
          nucleusOptionIndex == 0
      IN
      IF s.currentOptionIndex = nucleusOptionIndex \/ key = KEY_TAB \/ key = KEY_ESCAPE THEN
        LET s1 == IF isEnd(key)
                  THEN addParticleFirstOpen(s, bucketFront, particle) ELSE s
            s2 == [s1 EXCEPT
                    !.userControlled[particle] = FALSE,
                    !.isAccessibleControlled[particle] = FALSE,
                    !.currentlyDraggedParticle = Null,
                    !.ended = @ \cup {<<particle, "Top">>}]
        IN  IF key # KEY_TAB THEN setTimeout(s2, 0)
            ELSE [s2 EXCEPT !.currentlySelectedBucketFront = Null]
      ELSE
        chooseElectron([s EXCEPT !.selectingShellNucleusOptions = FALSE],
                       s.currentOptionIndex, particle, bucketFront)
    ELSE s
  ELSE s

\* the callback given to setTimeout by the view (who = 0, lines 201-204) or by
\* ring who (lines 348-351)
timeoutCallback(s, who) ==
  IF who = 0 THEN
    IF s.currentlySelectedBucketFront = Null
    THEN [s EXCEPT !.outcome = "TypeError"]
    ELSE [s EXCEPT !.focus = BucketFocus(s.currentlySelectedBucketFront),
                   !.currentlySelectedBucketFront = Null]
  ELSE
    IF s.activeBucketFront[who] = Null
    THEN [s EXCEPT !.outcome = "TypeError"]
    ELSE [s EXCEPT !.focus = BucketFocus(s.activeBucketFront[who]),
                   !.activeBucketFront[who] = Null]

\* ElectronShellView.accessibleSelect( particle, bucketFront )
accessibleSelectState(s, particle, bucketFront) ==
  [s EXCEPT
    !.selectingShellNucleusOptions = TRUE,
    !.focus = OptionFocus(s.previouslyFocusedNode),
    !.currentlyDraggedParticle = particle,
    !.currentlySelectedBucketFront = bucketFront]

\* ElectronShellView.getCurrentParticleHoverLocation()
getCurrentParticleHoverLocation == shellNucleusHoverLocations(currentOptionIndex)


\* ------------------------------------------------------------ sessions
\* the view is placing particle p among nucleus, inner ring and outer ring
TopActive(p) == selectingShellNucleusOptions /\ currentlyDraggedParticle = p

\* ring r is placing particle p among its electron positions
SlotActive(r, p) == choosingElectronPlacement[r] /\ activeParticle[r] = p

InSession(p) == TopActive(p) \/ \E r \in Rings : SlotActive(r, p)

SessionActive == \E p \in Particles : InSession(p)

\* ------------------------------------------------------------- actions
\* the simulation clock steps particle p
Step(p, dt) ==
  /\ step(p, dt)
  /\ last' = [Op("step") EXCEPT
                !.p = p, !.dt = dt,
                \* whether this step comes right after p was put at a point
                !.placed = last.op = "setPositionAndDestination" /\ last.isVector
                           /\ last.p = p,
                !.arg = IF last.op = "setPositionAndDestination" /\ last.isVector
                           /\ last.p = p
                        THEN last.arg ELSE ZERO]
  /\ UNCHANGED <<assertEnabled, viewVars, committed>>

\* arguments the model passes to setPositionAndDestination
PlacementPoints == {bucketLocation(b) : b \in BucketFronts} \cup {ZERO}

\* a particle outside any placement session is put somewhere without animation
SetPositionAndDestination(p, isVector, arg) ==
  /\ ~InSession(p)
  /\ setPositionAndDestination(p, isVector, arg)
  /\ last' = [Op("setPositionAndDestination") EXCEPT
                !.p = p, !.arg = arg, !.isVector = isVector,
                !.outcome = setPositionAndDestinationOutcome(isVector)]
  /\ UNCHANGED <<assertEnabled, viewVars>>

MoveImmediatelyToDestination(p) ==
  /\ ~InSession(p)
  /\ moveImmediatelyToDestination(p)
  /\ last' = [Op("moveImmediatelyToDestination") EXCEPT !.p = p]
  /\ UNCHANGED <<assertEnabled, viewVars>>

\* what the caller of accessibleSelect does to the particle beforehand: it takes
\* hold of it, as a pointer drag does
callerState(s, p) ==
  [s EXCEPT !.userControlled[p] = TRUE, !.isAccessibleControlled[p] = TRUE]

\* a bucket front hands the view a particle that no session holds
AccessibleSelect(p, b) ==
  /\ ~InSession(p)
  /\ \E s \in {accessibleSelectState(callerState(State, p), p, b)} : Becomes(s)
  /\ last' = [Op("accessibleSelect") EXCEPT !.p = p]
  /\ UNCHANGED <<velocity, assertEnabled, run>>

\* what one keydown event does: the listeners between the focused node and the view
\* run innermost first, then Tab moves input focus on
keydownState(s, key) ==
  LET s1 == IF s.focus.kind = "dash" THEN ringKeydown(s, s.focus.a, key)
            ELSE IF s.focus.kind = "option" /\ s.focus.a \in Rings
                 THEN ringKeydown(s, s.focus.a, key)
            ELSE s
      s2 == viewKeydown(s1, key)
  IN  IF key = KEY_TAB THEN [s2 EXCEPT !.focus = NoFocus] ELSE s2

\* the group of keys the listeners take a key for (lines 143-144, 167-168, 181)
keyGroup(key) ==
  IF isDownRight(key) THEN "downRight"
  ELSE IF isUpLeft(key) THEN "upLeft"
  ELSE IF key = KEY_TAB THEN "tab"
  ELSE IF key = KEY_ESCAPE THEN "escape"
  ELSE "place"

\* a key goes down while input focus is inside the view
Keydown(key) ==
  /\ focus.kind \in {"option", "dash"}
  /\ \E s \in {keydownState(State, key)} :
       /\ Len(s.timers) <= MaxPending
       /\ Becomes(s)
       /\ last' = [Op("keydown") EXCEPT
                     !.event = keyGroup(key), !.outcome = s.outcome, !.ended = s.ended,
                     !.reabsorbed = s.reabsorbed]
  /\ UNCHANGED <<velocity, assertEnabled, run>>

\* the oldest setTimeout callback runs
Timeout ==
  /\ timers # <<>>
  /\ \E s \in {timeoutCallback([State EXCEPT !.timers = Tail(@)], Head(timers))} :
       /\ Becomes(s)
       /\ last' = [Op("timeout") EXCEPT !.outcome = s.outcome]
  /\ UNCHANGED <<velocity, assertEnabled, run>>

\* the nodes the view gave input focus last: the top-level option, and the dash of
\* a ring that is showing its dashes
Resumable ==
  {OptionFocus(previouslyFocusedNode)}
    \cup {DashFocus(r, previouslyFocusedElectron[r]) :
            r \in {x \in Rings : dashFocusable[x][previouslyFocusedElectron[x]]}}

\* the user brings input focus back into the view, to where it was, after it
\* went to a bucket front or out of the view
UserFocus(f) ==
  /\ focus.kind \in {"none", "bucketFront"}
  /\ f \in Resumable
  /\ focus' = f
  /\ last' = Op("userFocus")
  /\ UNCHANGED <<particleVars, assertEnabled, selectingShellNucleusOptions,
                 previouslyFocusedNode, currentOptionIndex, currentlyDraggedParticle,
                 currentlySelectedBucketFront, choosingElectronPlacement, activeParticle,
                 activeBucketFront, ringOptionIndex, previouslyFocusedElectron,
                 dashFocusable, dashAccessibleHidden, dashVisible, timers,
                 currentIndex, dragListeners, run>>

\* ------------------------------------------------------- specification
\* the state the constructors leave
Constructed(slots) ==
  /\ position = [p \in Particles |-> ZERO]
  /\ destination = [p \in Particles |-> ZERO]
  /\ velocity = [p \in Particles |-> DEFAULT_PARTICLE_VELOCITY]
  /\ userControlled = [p \in Particles |-> FALSE]
  /\ isAccessibleControlled = [p \in Particles |-> FALSE]
  /\ assertEnabled = TRUE
  /\ selectingShellNucleusOptions = FALSE
  /\ previouslyFocusedNode = 0
  /\ currentOptionIndex = 0
  /\ currentlyDraggedParticle = Null
  /\ currentlySelectedBucketFront = Null
  /\ choosingElectronPlacement = [r \in Rings |-> FALSE]
  /\ activeParticle = [r \in Rings |-> Null]
  /\ activeBucketFront = [r \in Rings |-> Null]
  /\ ringOptionIndex = [r \in Rings |-> 0]
  /\ previouslyFocusedElectron = [r \in Rings |-> 0]
  /\ dashFocusable = [r \in Rings |-> [i \in 0 .. (slots[r] - 1) |-> FALSE]]
  /\ dashAccessibleHidden = [r \in Rings |-> [i \in 0 .. (slots[r] - 1) |-> FALSE]]
  /\ dashVisible = [r \in Rings |-> [i \in 0 .. (slots[r] - 1) |-> FALSE]]
  /\ focus = NoFocus
  /\ timers = <<>>
  /\ currentIndex = 0
  /\ dragListeners = <<>>
  /\ committed = [p \in Particles |-> NoPoint]
  /\ run = NoRun
  /\ last = Op("init")

Init == Constructed([r \in Rings |-> constructedSlots(r)])

\* the placement protocol: the view, the rings, their timers and the callers
Next ==
  \/ \E p \in Particles, b \in BucketFronts : AccessibleSelect(p, b) /\ UNCHANGED committed
  \/ \E key \in Keys : Keydown(key) /\ UNCHANGED committed
  \/ Timeout /\ UNCHANGED committed
  \/ \E f \in Resumable : UserFocus(f) /\ UNCHANGED committed

Spec == Init /\ [][Next]_vars


\* ------------------------------------------------ motion-only specification
\* One particle, with position, destination, speed and control flag drawn from
\* bounded sets, under the operations of Particle.js alone.
LinePoints == {OnLine(10 * k) : k \in (0 - Reach) .. Reach}
Speeds == {DEFAULT_PARTICLE_VELOCITY \div 2, DEFAULT_PARTICLE_VELOCITY}

InitParticle ==
  /\ position \in [Particles -> LinePoints]
  /\ position["p2"] = ZERO
  /\ destination \in [Particles -> LinePoints]
  /\ destination["p2"] = ZERO
  /\ velocity \in [Particles -> Speeds]
  /\ velocity["p2"] = DEFAULT_PARTICLE_VELOCITY
  /\ userControlled \in [Particles -> BOOLEAN]
  /\ userControlled["p2"] = FALSE
  /\ isAccessibleControlled = [p \in Particles |-> FALSE]
  /\ assertEnabled \in BOOLEAN
  /\ selectingShellNucleusOptions = FALSE
  /\ previouslyFocusedNode = 0
  /\ currentOptionIndex = 0
  /\ currentlyDraggedParticle = Null
  /\ currentlySelectedBucketFront = Null
  /\ choosingElectronPlacement = [r \in Rings |-> FALSE]
  /\ activeParticle = [r \in Rings |-> Null]
  /\ activeBucketFront = [r \in Rings |-> Null]
  /\ ringOptionIndex = [r \in Rings |-> 0]
  /\ previouslyFocusedElectron = [r \in Rings |-> 0]
  /\ dashFocusable = [r \in Rings |-> [i \in 0 .. (constructedSlots(r) - 1) |-> FALSE]]
  /\ dashAccessibleHidden = [r \in Rings |-> [i \in 0 .. (constructedSlots(r) - 1) |-> FALSE]]
  /\ dashVisible = [r \in Rings |-> [i \in 0 .. (constructedSlots(r) - 1) |-> FALSE]]
  /\ focus = NoFocus
  /\ timers = <<>>
  /\ currentIndex = 0
  /\ dragListeners = <<>>
  /\ committed = [p \in Particles |-> NoPoint]
  /\ run = NoRun
  /\ last = Op("init")

\* history: run counts the steps taken in a row by a free particle with one dt > 0,
\* and keeps the distance it had to go when the first of them began
runAfterStep(p, dt) ==
  IF userControlled[p] \/ dt = 0 THEN NoRun
  ELSE IF run.n > 0 /\ run.dt = dt THEN [run EXCEPT !.n = @ + 1]
  ELSE [d0 |-> distance(position[p], destination[p]), dt |-> dt, n |-> 1]

StepRun(p, dt) ==
  /\ Step(p, dt)
  /\ run' = runAfterStep(p, dt)
  /\ run'.n <= MaxSteps

NextParticle ==
  \/ \E dt \in 0 .. MaxDt : StepRun("p1", dt)
  \/ \E arg \in LinePoints :
       SetPositionAndDestination("p1", TRUE, arg) /\ run' = NoRun /\ UNCHANGED committed
  \/ SetPositionAndDestination("p1", FALSE, ZERO) /\ run' = NoRun /\ UNCHANGED committed
  \/ MoveImmediatelyToDestination("p1") /\ run' = NoRun /\ UNCHANGED committed

SpecParticle == InitParticle /\ [][NextParticle]_vars


\* --------------------------------------------- properties of Particle.js
lastStepped == last.op = "step"
lastPlacedAt == last.op = "setPositionAndDestination"

\* C1: a step of a user controlled particle changes neither its position nor its
\* destination, whatever position, destination, speed and dt are.
C1_StepLeavesUserControlledAlone ==
  [][(last'.op = "step" /\ userControlled[last'.p])
       => (position' = position /\ destination' = destination)]_vars

\* C1's case: a step with dt > 0 was taken by a user controlled particle that is
\* away from its destination
C1_Witness ==
  /\ lastStepped /\ last.dt > 0
  /\ userControlled[last.p]
  /\ position[last.p] # destination[last.p]

\* the scalar product of the two vectors from a and from b to c: negative when c
\* lies between a and b
towards(a, b, c) == (c[1] - a[1]) * (c[1] - b[1]) + (c[2] - a[2]) * (c[2] - b[2])

\* C2: a step of a free particle never overshoots: the distance to the destination
\* does not grow, the position does not pass the destination, and a particle at
\* its destination stays there.
C2_StepNeverOvershoots ==
  [][(last'.op = "step" /\ ~userControlled[last'.p])
       => LET p == last'.p
          IN  /\ distance(position'[p], destination[p])
                   <= distance(position[p], destination[p])
              /\ towards(position[p], position'[p], destination[p]) >= 0
              /\ position[p] = destination[p] => position'[p] = position[p]
              /\ destination' = destination]_vars

\* C2's case: a free particle has taken a step with dt > 0 that left it short of
\* its destination
C2_Witness ==
  /\ lastStepped /\ last.dt > 0
  /\ ~userControlled[last.p]
  /\ position[last.p] # destination[last.p]

\* C3: steps in a row of a free particle with one dt > 0, one speed and one
\* destination reach the destination within ceil( initial distance / (speed dt) )
\* steps, and later steps of the row stay there.
C3_ReachesDestinationInTime ==
  (run.n > 0 /\ run.n * run.dt * velocity["p1"] >= run.d0)
    => position["p1"] = destination["p1"]

\* C3's case: the third or a later step of a row is the one that arrives, and it
\* arrives by the snap of lines 98-101
C3_Witness ==
  /\ run.n >= 3
  /\ run.n * run.dt * velocity["p1"] >= run.d0
  /\ (run.n - 1) * run.dt * velocity["p1"] < run.d0
  /\ run.d0 % (run.dt * velocity["p1"]) # 0
  /\ position["p1"] = destination["p1"]

\* C4: a step taken right after setPositionAndDestination( v ) leaves position and
\* destination at v, for every dt and every earlier state of the particle.
C4_PlacedThenStepped ==
  [][(lastPlacedAt /\ last.isVector /\ last'.op = "step" /\ last'.p = last.p)
       => (position'[last.p] = last.arg /\ destination'[last.p] = last.arg)]_vars

\* C4's case: a free particle was put at a point other than the origin and then
\* stepped with dt > 0
C4_Witness ==
  /\ lastStepped /\ last.placed /\ last.dt > 0
  /\ ~userControlled[last.p]
  /\ last.arg # ZERO

sessionVars ==
  <<selectingShellNucleusOptions, currentOptionIndex, currentlyDraggedParticle,
    currentlySelectedBucketFront, choosingElectronPlacement, activeParticle,
    activeBucketFront, ringOptionIndex>>

\* C6, as claimed: accessibleSelect during a session is rejected with a conflict
\* error and leaves the session as it is.
C6_SelectDuringSessionRejected ==
  [][(last'.op = "accessibleSelect" /\ SessionActive)
       => (last'.outcome = "SessionConflict" /\ UNCHANGED sessionVars)]_vars

\* C7, as claimed: a refocus of the bucket front that is still waiting when
\* accessibleSelect starts a session does not act on that session: when it runs it
\* moves no input focus and leaves the bucket front of the session in place.
C7_WaitingRefocusSuperseded ==
  [][(last.op = "accessibleSelect" /\ last'.op = "timeout")
       => (/\ focus' = focus
           /\ currentlySelectedBucketFront' = currentlySelectedBucketFront
           /\ activeBucketFront' = activeBucketFront)]_vars

\* the session whose listener a keydown reaches holds p: the view's listener hears
\* every key, a ring's listener the keys of its own nodes
Reaches(p) ==
  \/ TopActive(p)
  \/ \E r \in Rings : SlotActive(r, p) /\ focus.a = r /\ focus.kind \in {"dash", "option"}

RECURSIVE timesIn(_, _)
timesIn(e, seq) ==
  IF seq = <<>> THEN 0 ELSE (IF Head(seq) = e THEN 1 ELSE 0) + timesIn(e, Tail(seq))

\* C8, as claimed: Escape or Tab, at the top level or among the dashes, hands the
\* particle of the session to its bucket exactly once, releases it and ends the
\* session.
C8_CancelReturnsParticle ==
  [][\A key \in {KEY_ESCAPE, KEY_TAB} : \A p \in Particles :
       (Keydown(key) /\ Reaches(p))
         => (/\ \E b \in BucketFronts : timesIn(<<b, p>>, last'.reabsorbed) = 1
             /\ \A b \in BucketFronts : timesIn(<<b, p>>, last'.reabsorbed) <= 1
             /\ ~userControlled'[p]
             /\ ~InSession(p)')]_vars

\* C9: Enter or Space that ends a session hands nothing to the bucket and leaves
\* the destination of the particle as it was; the particle is released and the
\* session is over.
C9_PlaceKeepsParticle ==
  [][\A key \in {KEY_ENTER, KEY_SPACE} : \A p \in Particles :
       (Keydown(key) /\ \E level \in {"Top", "Slot"} : <<p, level>> \in last'.ended)
         => (/\ \A b \in BucketFronts : timesIn(<<b, p>>, last'.reabsorbed) = 0
             /\ destination'[p] = destination[p]
             /\ ~userControlled'[p]
             /\ ~InSession(p)')]_vars

\* C9's case: Enter or Space has ended a session among the dashes and the particle
\* is headed for a dash
C9_Witness ==
  /\ last.op = "keydown" /\ last.reabsorbed = <<>>
  /\ \E p \in Particles :
       /\ <<p, "Slot">> \in last.ended
       /\ \E r \in Rings : \E i \in 0 .. (slotCount(r) - 1) :
            destination[p] = timesHundredths(ringShellPosition(r, i), PlacementScale)
       /\ ~userControlled[p] /\ ~InSession(p)

\* --------------------------------------------------- navigation
ArrowKeys == {KEY_DOWN_ARROW, KEY_RIGHT_ARROW, KEY_UP_ARROW, KEY_LEFT_ARROW}

\* the state after n keydown events of one key in a row
RECURSIVE keydownTimes(_, _, _)
keydownTimes(s, key, n) ==
  IF n = 0 THEN s
  ELSE CHOOSE t \in {keydownTimes(keydownState(u, key), key, n - 1) : u \in {s}} : TRUE

\* a session is at the top level, or among the dashes of ring r, and has input focus
AtTop(p) == TopActive(p) /\ focus.kind = "option"
AtSlot(r, p) == SlotActive(r, p) /\ focus = DashFocus(r, focus.b)

\* C11, as claimed: in a session at the top level three presses of one arrow key
\* bring the option index, the input focus and the destination of the particle
\* back to what they were; among the dashes of a ring, as many presses as the
\* ring has dashes bring the dash index back.
C11_ArrowKeysCycle ==
  \A p \in Particles : \A key \in ArrowKeys :
    /\ AtTop(p) =>
         \E s \in {keydownTimes(State, key, 3)} :
           /\ s.currentOptionIndex = currentOptionIndex
           /\ s.focus = focus
           /\ s.destination[p] = destination[p]
    /\ \A r \in Rings : AtSlot(r, p) =>
         keydownTimes(State, key, slotCount(r)).ringOptionIndex[r] = ringOptionIndex[r]

stateVars ==
  <<particleVars, selectingShellNucleusOptions, previouslyFocusedNode,
    currentOptionIndex, currentlyDraggedParticle, currentlySelectedBucketFront,
    choosingElectronPlacement, activeParticle, activeBucketFront, ringOptionIndex,
    previouslyFocusedElectron, dashFocusable, dashAccessibleHidden, dashVisible,
    timers>>

\* C12: with no session open, Enter, Space, Escape and Tab change no field of a
\* particle, of the view or of a ring, hand nothing to a bucket, set no timeout
\* and throw nothing.
C12_IdleKeysDoNothing ==
  [][(last'.op = "keydown" /\ last'.event \in {"place", "escape", "tab"}
        /\ ~SessionActive)
       => (/\ UNCHANGED stateVars
           /\ last'.outcome = "ok"
           /\ last'.reabsorbed = <<>>
           /\ last'.ended = {})]_vars

\* C12's case: a session has ended, the user has brought input focus back into
\* the view, and Enter, Space or Escape went down with no session open
C12_Witness ==
  /\ last.op = "keydown" /\ last.event \in {"place", "escape"}
  /\ last.ended = {} /\ ~SessionActive
  /\ focus.kind \in {"option", "dash"}
  /\ \A p \in Particles : ~userControlled[p]

\* ------------------------------------------- the placement, with the clock
\* the electron that the placement specification follows
Electron == "p1"

\* the point a dash stands for: Enter or Space on dash i of ring r, heard by the
\* ring while it holds the electron, places the electron 1.05 times as far out
committedAfter(key) ==
  IF /\ key \in {KEY_ENTER, KEY_SPACE}
     /\ focus.kind = "dash"
     /\ SlotActive(focus.a, Electron) /\ activeBucketFront[focus.a] # Null
  THEN [committed EXCEPT ![Electron] =
          timesHundredths(ringShellPosition(focus.a, focus.b), PlacementScale)]
  ELSE committed

Placed == committed[Electron] # NoPoint

\* one frame of the clock: the model steps the electron
Tick(dt) ==
  /\ step(Electron, dt)
  /\ UNCHANGED <<assertEnabled, viewVars, committed, run, last>>

NextLive ==
  \/ \E dt \in 0 .. MaxDt : Tick(dt)
  \/ /\ ~Placed
     /\ \E b \in BucketFronts :
          SetPositionAndDestination(Electron, TRUE, bucketLocation(b))
     /\ UNCHANGED <<committed, run>>
  \/ /\ ~Placed
     /\ \E b \in BucketFronts : AccessibleSelect(Electron, b)
     /\ UNCHANGED committed
  \/ \E key \in Keys : Keydown(key) /\ committed' = committedAfter(key)
  \/ Timeout /\ UNCHANGED committed
  \/ \E f \in Resumable : UserFocus(f) /\ UNCHANGED committed

\* the clock keeps running: frames with dt > 0 keep coming
Clock == WF_vars(\E dt \in 1 .. MaxDt : Tick(dt))

SpecLive == Init /\ [][NextLive]_vars /\ Clock

\* C10: once Enter or Space has placed the electron on a dash and no session
\* follows, the frames bring the electron to 1.05 times the point of that dash,
\* and it stays there.
C10_PlacedElectronArrives ==
  [](Placed => <>[](position[Electron] = committed[Electron]))

\* C10's case: the electron was placed on a dash away from where it was, and the
\* frames have brought it there
C10_Witness ==
  /\ Placed
  /\ position[Electron] = committed[Electron]
  /\ destination[Electron] = committed[Electron]
  /\ ~userControlled[Electron]

\* --------------------------------- one electron, an outer ring with more dashes
InitRing ==
  \E n \in {OuterSlots, WideSlots} :
    Constructed([r \in Rings |-> IF r = 1 THEN InnerSlots ELSE n])

NextRing ==
  \/ \E b \in BucketFronts : AccessibleSelect(Electron, b) /\ UNCHANGED committed
  \/ \E key \in Keys : Keydown(key) /\ UNCHANGED committed
  \/ Timeout /\ UNCHANGED committed
  \/ \E f \in Resumable : UserFocus(f) /\ UNCHANGED committed

SpecRing == InitRing /\ [][NextRing]_vars

\* the step an arrow key makes the view's listener take through the three options,
\* and the ring's listener through the dashes of ring r: 1 is one on, -1 one back
topStep(key) ==
  \E s \in {viewKeydown([State EXCEPT !.selectingShellNucleusOptions = TRUE], key)} :
    s.currentOptionIndex = (currentOptionIndex + 1) % 3
slotStep(r, key) ==
  \E s \in {ringKeydown(State, r, key)} :
    s.ringOptionIndex[r] = (ringOptionIndex[r] + 1) % slotCount(r)

\* C13, as claimed: an arrow key that takes the view one option on takes a ring one
\* dash on, and an arrow key that takes the view one option back takes a ring one
\* dash back.
C13_OneArrowConvention ==
  \A r \in Rings : \A key \in ArrowKeys :
    (/\ AtSlot(r, Electron) /\ activeBucketFront[r] # Null
     /\ slotCount(r) >= 3)
      => (slotStep(r, key) <=> topStep(key))

\* C14, as claimed: accessibleSelect with no session open starts the session at the
\* top level on option 0, the nucleus, and gives that option input focus, wherever
\* earlier sessions had gone.
C14_SelectStartsAtNucleus ==
  [][\A p \in Particles :
       (last'.op = "accessibleSelect" /\ last'.p = p /\ ~SessionActive)
         => (/\ TopActive(p)'
             /\ currentOptionIndex' = 0
             /\ focus' = OptionFocus(0))]_vars

\* C15, as claimed: right after accessibleSelect the particle is user controlled
\* and its destination is the hover location of the top-level option in focus.
C15_SelectSendsParticleToOption ==
  [][(last'.op = "accessibleSelect" /\ ~SessionActive)
       => (/\ userControlled'[last'.p]
           /\ focus'.kind = "option"
           /\ destination'[last'.p] = shellNucleusHoverLocations(focus'.a))]_vars

\* the dashes of ring r are all shown and focusable, but for dash i, which has
\* input focus in place of its marker
Highlighted(r, i) ==
  /\ \A j \in DOMAIN dashFocusable[r] :
       /\ dashFocusable[r][j]
       /\ dashVisible[r][j] <=> j # i
  /\ focus = DashFocus(r, i)

\* C16, as claimed: Enter or Space on the inner or outer ring at the top level
\* takes the session to dash 0 of that ring: all its dashes are shown and
\* focusable, dash 0 has input focus, and the particle is sent to 1.05 times the
\* position of dash 0; in every session.
C16_RingEnteredAtDashZero ==
  [][\A p \in Particles : \A r \in Rings :
       (/\ last'.op = "keydown" /\ last'.event = "place"
        /\ TopActive(p) /\ isDragging(State)
        /\ currentOptionIndex = r /\ focus = OptionFocus(r))
         => (/\ SlotActive(r, p)'
             /\ ringOptionIndex'[r] = 0
             /\ Highlighted(r, 0)'
             /\ destination'[p] =
                  timesHundredths(ringShellPosition(r, 0), PlacementScale))]_vars

\* C17: an arrow key that reaches the view while it is placing particle p among the
\* three options moves currentOptionIndex one step round 0, 1, 2 (down or right one
\* up, up or left one down, never out of 0..2), leaves the view placing p among the
\* options, gives input focus to the option at the new index and sends p to the
\* hover location of that option
C17_OptionArrowsStepRound ==
  [][\A p \in Particles :
       (last'.op = "keydown" /\ last'.event \in {"downRight", "upLeft"} /\ AtTop(p))
         => /\ currentOptionIndex' =
                 IF last'.event = "downRight" THEN (currentOptionIndex + 1) % 3
                 ELSE (currentOptionIndex + 2) % 3
            /\ currentOptionIndex' \in 0 .. 2
            /\ TopActive(p)'
            /\ focus' = OptionFocus(currentOptionIndex')
            /\ destination'[p] = shellNucleusHoverLocations(currentOptionIndex')]_vars

\* up or left on the nucleus has taken the particle to the outer ring
C17_Witness ==
  /\ last.op = "keydown" /\ last.event = "upLeft" /\ last.outcome = "ok"
  /\ currentOptionIndex = 2 /\ focus = OptionFocus(2)
  /\ \E p \in Particles : TopActive(p) /\ destination[p] = shellNucleusHoverLocations(2)

C19_DashesShownOnlyWhilePlacing ==
  \A r \in Rings : \A i \in DOMAIN dashFocusable[r] :
    (dashFocusable[r][i] \/ dashVisible[r][i]) => \E p \in Particles : SlotActive(r, p)

\* a key has ended the placing on a ring and no session is left: no dash shows
C19_Witness ==
  /\ last.op = "keydown" /\ \E p \in Particles : <<p, "Slot">> \in last.ended
  /\ ~SessionActive
  /\ \A r \in Rings : \A i \in DOMAIN dashFocusable[r] :
       ~dashFocusable[r][i] /\ ~dashVisible[r][i]

\* ------------------------- one electron, and the browser runs waiting callbacks
TimersRun == WF_vars(Timeout /\ UNCHANGED committed)

SpecRefocus == InitRing /\ [][NextRing]_vars /\ TimersRun

\* the last key ended a session by placing or by Escape
endedByPlaceOrEscape ==
  last.op = "keydown" /\ last.event \in {"place", "escape"} /\ last.ended # {}

\* the last key ended a session by Tab
endedByTab == last.op = "keydown" /\ last.event = "tab" /\ last.ended # {}

\* the last step was a setTimeout callback that gave a bucket front input focus
refocused == last.op = "timeout" /\ last.outcome = "ok" /\ focus.kind = "bucketFront"

focusAnchors ==
  IF focus.kind = "option" THEN {shellNucleusHoverLocations(focus.a)}
  ELSE IF focus.kind = "dash"
       THEN {ringShellPosition(focus.a, focus.b),
             timesHundredths(ringShellPosition(focus.a, focus.b), PlacementScale)}
  ELSE {}

\* C21, as claimed: while a session is under way and input focus is on a top-level
\* option or on a dash, getCurrentParticleHoverLocation() returns the anchor of the
\* node that has input focus
C21_HoverLocationOfFocusedOption ==
  (SessionActive /\ focus.kind \in {"option", "dash"})
    => getCurrentParticleHoverLocation \in focusAnchors

\* ------------- the earlier ElectronShellView (Particle.js, lines 124-323)
\* choosingLocation of centerOption, innerRing, outerRing (lines 260-262)
choosingLocation(i) ==
  IF i = 0 THEN ZERO ELSE IF i = 1 THEN <<100, 0>> ELSE <<200, 0>>

\* input focus on the view itself, the listbox
ListboxFocus == [kind |-> "listbox", a |-> 0, b |-> 0]

\* the particles of seq, as a set
inSeq(seq) == {seq[k] : k \in DOMAIN seq}

\* ElectronShellView.handleAccessibleDrag (lines 305-321): focus the view, add a
\* listener to each emitter; none is ever removed
handleAccessibleDrag(s, particle) ==
  [s EXCEPT !.focus = ListboxFocus, !.dragListeners = Append(@, particle)]

\* optionSelectedEmitter.emit(): every listener releases its particle (316-318)
optionSelectedEmit(s) ==
  [s EXCEPT !.userControlled =
              [q \in Particles |-> IF q \in inSeq(s.dragListeners) THEN FALSE ELSE @[q]]]

\* optionHighlightedEmitter.emit1( node ): every listener puts its particle at the
\* node's choosingLocation (310-313)
optionHighlightedEmit(s, i) ==
  [s EXCEPT !.position =
              [q \in Particles |->
                 IF q \in inSeq(s.dragListeners) THEN choosingLocation(i) ELSE @[q]]]

\* the keydown listener of the earlier view (lines 267-285)
dragKeydown(s, key) ==
  LET index == IF isDownRight(key) THEN (s.currentIndex + 1) % 3
               ELSE IF isUpLeft(key) THEN previousIndex(s.currentIndex, 3)
               ELSE s.currentIndex
      s1 == IF key = KEY_ENTER \/ key = KEY_SPACE THEN optionSelectedEmit(s) ELSE s
      s2 == optionHighlightedEmit([s1 EXCEPT !.currentIndex = index], index)
  IN  IF key = KEY_TAB THEN [s2 EXCEPT !.focus = NoFocus] ELSE s2

\* a bucket hands the earlier view a particle it has taken hold of
HandleAccessibleDrag(p) ==
  /\ ~userControlled[p]
  /\ Len(dragListeners) < MaxListeners
  /\ \E s \in {handleAccessibleDrag(callerState(State, p), p)} : Becomes(s)
  /\ last' = [Op("handleAccessibleDrag") EXCEPT !.p = p]
  /\ UNCHANGED <<velocity, assertEnabled, committed, run>>

\* a key goes down while the earlier view has input focus
DragKeydown(key) ==
  /\ focus = ListboxFocus
  /\ \E s \in {dragKeydown(State, key)} : Becomes(s)
  /\ last' = [Op("keydown") EXCEPT !.event = keyGroup(key)]
  /\ UNCHANGED <<velocity, assertEnabled, committed, run>>

NextDrag ==
  \/ \E p \in Particles : HandleAccessibleDrag(p)
  \/ \E key \in Keys : DragKeydown(key)

SpecDrag == Init /\ [][NextDrag]_vars

\* C22, as claimed: a key event changes neither the position nor the destination nor
\* the userControlled flag of a particle that is released and that no session holds
C22_ReleasedParticleLeftAlone ==
  [][\A p \in Particles :
       (last'.op = "keydown" /\ ~userControlled[p] /\ ~InSession(p))
         => (position'[p] = position[p] /\ destination'[p] = destination[p]
             /\ userControlled'[p] = userControlled[p])]_vars

\* C23, as claimed: with no session under way an arrow key changes neither
\* currentOptionIndex of the view or of a ring, nor input focus, nor the destination
\* of a particle, and throws nothing
C23_IdleArrowsDoNothing ==
  [][(last'.op = "keydown" /\ last'.event \in {"downRight", "upLeft"} /\ ~SessionActive)
       => (/\ UNCHANGED <<currentOptionIndex, ringOptionIndex, focus, destination>>
           /\ last'.outcome = "ok")]_vars

\* C24, as claimed: a setTimeout callback that runs finds the bucket front it is to
\* focus: it throws nothing
C24_RefocusFindsBucketFront == last.op = "timeout" => last.outcome = "ok"

\* particle p is in a session in the state record s
inSessionIn(s, p) ==
  \/ s.selectingShellNucleusOptions /\ s.currentlyDraggedParticle = p
  \/ \E r \in Rings : s.choosingElectronPlacement[r] /\ s.activeParticle[r] = p

\* where input focus is or where the user can bring it back to
FocusChoices ==
  IF focus.kind \in {"none", "bucketFront"} THEN Resumable ELSE {focus}

\* C25, as claimed: whenever a particle is in a session, Escape, with input focus
\* where the session left it, ends the session: the bucket is asked to take the
\* particle back, the particle is released and no session holds it
C25_EscapeEndsSession ==
  \A p \in Particles :
    InSession(p) =>
      \E f \in FocusChoices :
        \E s \in {keydownState([State EXCEPT !.focus = f], KEY_ESCAPE)} :
          /\ \E b \in BucketFronts : timesIn(<<b, p>>, s.reabsorbed) >= 1
          /\ ~s.userControlled[p]
          /\ ~inSessionIn(s, p)

====
